---- MODULE Spec2Model ----
(***************************************************************************)
(* Daily Sugar Guidance (src/app.py): the reading classification and       *)
(* history engine.  The Streamlit script is re-executed top to bottom on   *)
(* every user interaction; the only state that survives a rerun is the     *)
(* CSV file and st.session_state.  One action per block of the script,     *)
(* pc being the position of the running script.                            *)
(***************************************************************************)
EXTENDS Integers, Sequences, FiniteSets, TLC

VARIABLES
    csv,                   \* the file at CSV_PATH
    clock,                 \* the second the next datetime.now() reads
    show_results,          \* st.session_state.show_results
    last_result,           \* st.session_state.last_result
    pc,                    \* position of the script run
    submit,                \* value of the "Get Today's Guidance" button
    reading_type_display,  \* value of the selectbox
    sugar,                 \* value of the number_input
    reading_type_key,      \* script local, bound inside `if submit:`
    status,                \* script local, bound by the status chain
    alert,                 \* the st.error raised by this run
    shown,                 \* the result card rendered by this run
    call,                  \* most recent call of an engine function and its return
    before,                \* history: the file as the running script found it
    batch                  \* history: the readings saved since the initial state

vars == <<csv, clock, show_results, last_result, pc, submit, reading_type_display,
          sugar, reading_type_key, status, alert, shown, call, before, batch>>

----------------------------------------------------------------------------
(* Bounds of the model *)

\* readings saved in one behaviour
MaxAppend == 2
\* rows of a file that exists before the first run
MaxSeed == 8
\* rows of a file that exists before the first run of Spec
MainSeed == 2
\* largest limit passed to get_history_data by a direct call
MaxLimit == 4

----------------------------------------------------------------------------
(* Constants of the program *)

READING_TYPES ==
    [d \in {"Fasting (Empty Stomach)", "After Breakfast", "After Lunch",
            "After Dinner", "Random"} |->
        CASE d = "Fasting (Empty Stomach)" -> "fasting"
          [] d = "After Breakfast"         -> "post_breakfast"
          [] d = "After Lunch"             -> "post_lunch"
          [] d = "After Dinner"            -> "post_dinner"
          [] d = "Random"                  -> "random"]

THRESHOLDS ==
    [k \in {"fasting", "post_breakfast", "post_lunch", "post_dinner", "random"} |->
        CASE k = "fasting" ->
                [low |-> 70, normal_max |-> 100, borderline_max |-> 125, warning |-> 126]
          [] k \in {"post_breakfast", "post_lunch", "post_dinner"} ->
                [low |-> 80, normal_max |-> 140, borderline_max |-> 160, warning |-> 161]
          [] k = "random" ->
                [low |-> 70, normal_max |-> 120, borderline_max |-> 140, warning |-> 141]]

\* st.number_input(min_value=0, max_value=600, step=1)
MIN_VALUE == 0
MAX_VALUE == 600
\* the two emergency limits of the submit handler
CRITICAL_LOW_BELOW == 40
EXTREMELY_HIGH_ABOVE == 400
\* data.tail(7) of show_sugar_trend, get_history_data(limit=10) of the history section
TREND_TAIL == 7
HISTORY_LIMIT == 10
\* the fixed colour band of show_sugar_trend
BAND_LOW == 70
BAND_NORMAL_MAX == 100
BAND_BORDERLINE_MAX == 125

----------------------------------------------------------------------------
(* Python and pandas helpers *)

Min(a, b) == IF a < b THEN a ELSE b
Max(a, b) == IF a > b THEN a ELSE b

Range(s) == {s[i] : i \in 1..Len(s)}

\* seq[start:] of Python, start possibly negative
PySliceFrom(s, start) ==
    LET n == Len(s)
        lo == IF start < 0 THEN Max(n + start, 0) ELSE Min(start, n)
    IN  SubSeq(s, lo + 1, n)

\* str(int): the decimal digits, most significant first
RECURSIVE FormatInt(_)
FormatInt(n) == IF n < 10 THEN <<n>> ELSE FormatInt(n \div 10) \o <<n % 10>>

\* int(text) of a digit string
RECURSIVE ParseInt(_)
ParseInt(ds) ==
    IF Len(ds) = 0 THEN 0
    ELSE 10 * ParseInt(SubSeq(ds, 1, Len(ds) - 1)) + ds[Len(ds)]

NaN == "NaN"

\* A DataFrame is [columns: sequence of names, rows: sequence of name -> cell].
\* A CSV file is [exists, header: sequence of names, lines: sequence of cell
\* tuples in header order]; the sugar cell is text, the datetime cell is the
\* second the strftime text names, the reading_type cell is the key.
NoFile == [exists |-> FALSE, header |-> <<>>, lines |-> <<>>]

EmptyFrame == [columns |-> <<>>, rows |-> <<>>]

FormatCell(c, v) == IF c = "sugar" THEN FormatInt(v) ELSE v
ParseCell(c, x) == IF c = "sugar" THEN ParseInt(x) ELSE x

ColumnIndex(header, c) == CHOOSE i \in 1..Len(header) : header[i] = c

\* DataFrame.to_csv(CSV_PATH, index=False)
to_csv(df) ==
    [exists |-> TRUE,
     header |-> df.columns,
     lines  |-> [i \in 1..Len(df.rows) |->
                    [j \in 1..Len(df.columns) |->
                        FormatCell(df.columns[j], df.rows[i][df.columns[j]])]]]

\* pd.read_csv(CSV_PATH): an all-digit column is read as integers
read_csv(file) ==
    [columns |-> file.header,
     rows    |-> [i \in 1..Len(file.lines) |->
                    [c \in Range(file.header) |->
                        ParseCell(c, file.lines[i][ColumnIndex(file.header, c)])]]]

\* df[c] = v: a new column goes last, an existing one is overwritten
AssignColumn(df, c, v) ==
    [columns |-> IF c \in Range(df.columns) THEN df.columns ELSE Append(df.columns, c),
     rows    |-> [i \in 1..Len(df.rows) |->
                    [k \in Range(df.columns) \cup {c} |->
                        IF k = c THEN v ELSE df.rows[i][k]]]]

\* pd.concat([a, b], ignore_index=True): the union of the columns in order of
\* appearance, a cell of a column a frame lacks is NaN
Concat(a, b) ==
    LET extra == SelectSeq(b.columns, LAMBDA c : c \notin Range(a.columns))
        cols  == a.columns \o extra
        Fill(r, have) == [k \in Range(cols) |-> IF k \in have THEN r[k] ELSE NaN]
    IN  [columns |-> cols,
         rows    |-> [i \in 1..Len(a.rows) |-> Fill(a.rows[i], Range(a.columns))]
                     \o [i \in 1..Len(b.rows) |-> Fill(b.rows[i], Range(b.columns))]]

\* a faulty variant of DfTail: head(n) in place of tail(n)
DfTail_Head(df, n) ==
    [columns |-> df.columns,
     rows    |-> SubSeq(df.rows, 1, Min(n, Len(df.rows)))]

\* df.tail(n): iloc[0:0] when n = 0, iloc[-n:] otherwise
DfTail(df, n) ==
    [columns |-> df.columns,
     rows    |-> IF n = 0 THEN <<>> ELSE PySliceFrom(df.rows, 0 - n)]

\* df[df["reading_type"] == t]
FilterType(df, t) ==
    [columns |-> df.columns,
     rows    |-> SelectSeq(df.rows, LAMBDA r : r["reading_type"] = t)]

\* a faulty variant of WithReadingType: the missing column defaults to fasting
WithReadingType_Fasting(df) ==
    IF "reading_type" \notin Range(df.columns)
    THEN AssignColumn(df, "reading_type", "fasting")
    ELSE df

\* the "reading_type" not in data.columns repair of every load path
WithReadingType(df) ==
    IF "reading_type" \notin Range(df.columns)
    THEN AssignColumn(df, "reading_type", "random")
    ELSE df

----------------------------------------------------------------------------
(* The engine functions *)

\* a faulty variant of save_sugar_history: the new row replaces the file
save_sugar_history_Overwrite(file, now, sugar_value, reading_type) ==
    to_csv([columns |-> <<"datetime", "reading_type", "sugar">>,
            rows    |-> <<[datetime     |-> now,
                           reading_type |-> reading_type,
                           sugar        |-> sugar_value]>>])

\* save_sugar_history(sugar_value, reading_type) with the clock at `now`:
\* the file it leaves
save_sugar_history(file, now, sugar_value, reading_type) ==
    LET new_data == [columns |-> <<"datetime", "reading_type", "sugar">>,
                     rows    |-> <<[datetime     |-> now,
                                    reading_type |-> reading_type,
                                    sugar        |-> sugar_value]>>]
    IN  IF file.exists
        THEN to_csv(Concat(WithReadingType(read_csv(file)), new_data))
        ELSE to_csv(new_data)

\* a faulty variant of get_smart_insight: the rows of the given reading type are compared
get_smart_insight_SameType(file, reading_type) ==
    IF ~file.exists
    THEN [text |-> "No history available yet.", by |-> 0]
    ELSE LET data == FilterType(WithReadingType(read_csv(file)), reading_type)
             n    == Len(data.rows)
         IN  IF n < 2
             THEN [text |-> "This is your first entry. Add more daily values to see comparisons.",
                   by |-> 0]
             ELSE LET today_value     == data.rows[n]["sugar"]
                      yesterday_value == data.rows[n - 1]["sugar"]
                  IN  IF today_value < yesterday_value
                      THEN [text |-> "Good progress. Today's sugar is lower than yesterday by",
                            by |-> yesterday_value - today_value]
                      ELSE IF today_value > yesterday_value
                      THEN [text |-> "Attention needed. Today's sugar is higher than yesterday by",
                            by |-> today_value - yesterday_value]
                      ELSE [text |-> "Your sugar level is the same as yesterday. Maintain your routine.",
                            by |-> 0]

\* get_smart_insight(reading_type): the text, with the number it interpolates
get_smart_insight(file, reading_type) ==
    IF ~file.exists
    THEN [text |-> "No history available yet.", by |-> 0]
    ELSE LET data == WithReadingType(read_csv(file))
             n    == Len(data.rows)
         IN  IF n < 2
             THEN [text |-> "This is your first entry. Add more daily values to see comparisons.",
                   by |-> 0]
             ELSE LET today_value     == data.rows[n]["sugar"]
                      yesterday_value == data.rows[n - 1]["sugar"]
                  IN  IF today_value < yesterday_value
                      THEN [text |-> "Good progress. Today's sugar is lower than yesterday by",
                            by |-> yesterday_value - today_value]
                      ELSE IF today_value > yesterday_value
                      THEN [text |-> "Attention needed. Today's sugar is higher than yesterday by",
                            by |-> today_value - yesterday_value]
                      ELSE [text |-> "Your sugar level is the same as yesterday. Maintain your routine.",
                            by |-> 0]

\* a faulty variant of BarColor: the green band excludes its upper end
BarColor_OpenNormal(val) ==
    IF val < BAND_LOW THEN "red"
    ELSE IF BAND_LOW <= val /\ val < BAND_NORMAL_MAX THEN "green"
    ELSE IF BAND_NORMAL_MAX <= val /\ val <= BAND_BORDERLINE_MAX THEN "orange"
    ELSE "red"

\* the colour of one bar of the trend chart
BarColor(val) ==
    IF val < BAND_LOW THEN "red"
    ELSE IF BAND_LOW <= val /\ val <= BAND_NORMAL_MAX THEN "green"
    ELSE IF BAND_NORMAL_MAX < val /\ val <= BAND_BORDERLINE_MAX THEN "orange"
    ELSE "red"

NoFilter == "None"

\* show_sugar_trend(filter_type): the figure (its bars), or no figure and the
\* st.info text
show_sugar_trend(file, filter_type) ==
    IF ~file.exists
    THEN [fig |-> FALSE, info |-> "No data available to show trends.", bars |-> <<>>]
    ELSE LET loaded == WithReadingType(read_csv(file))
             data   == IF filter_type # NoFilter THEN FilterType(loaded, filter_type)
                       ELSE loaded
         IN  IF Len(data.rows) < 2
             THEN [fig |-> FALSE, info |-> "Add more daily entries to see your sugar trend.",
                   bars |-> <<>>]
             ELSE LET recent_data == DfTail(data, TREND_TAIL)
                  IN  [fig  |-> TRUE,
                       info |-> "",
                       bars |-> [i \in 1..Len(recent_data.rows) |->
                                   [datetime |-> recent_data.rows[i]["datetime"],
                                    sugar    |-> recent_data.rows[i]["sugar"],
                                    color    |-> BarColor(recent_data.rows[i]["sugar"])]]]

\* get_history_data(limit)
get_history_data(file, limit) ==
    IF ~file.exists
    THEN EmptyFrame
    ELSE DfTail(WithReadingType(read_csv(file)), limit)

----------------------------------------------------------------------------
(* The script's state *)

\* st.session_state.last_result = {}
NoResult == [sugar |-> 0, status |-> "", color |-> "", reading_type |-> "",
             reading_type_key |-> ""]

\* a script local that no statement has bound yet
Unbound == "unbound"

NoAlert == ""

NoCall == [fn |-> "", arg |-> <<>>, ret |-> <<>>]

\* a faulty variant of Invalid: zero passes the validation
Invalid_Negative(value) == value < 0

\* a faulty variant of EmergencyOf: no upper emergency limit
EmergencyOf_NoCeiling(value) ==
    IF value < CRITICAL_LOW_BELOW THEN "Critical Low Blood Sugar"
    ELSE NoAlert

\* a faulty variant of EmergencyOf: no lower emergency limit
EmergencyOf_NoFloor(value) ==
    IF value > EXTREMELY_HIGH_ABOVE THEN "Extremely High Blood Sugar"
    ELSE NoAlert

\* a faulty variant of StatusOf: a value equal to the low threshold is LOW
StatusOf_LowInclusive(value, threshold) ==
    IF value < CRITICAL_LOW_BELOW THEN "CRITICAL LOW"
    ELSE IF value <= threshold.low THEN "LOW"
    ELSE IF value <= threshold.normal_max THEN "NORMAL"
    ELSE IF value <= threshold.borderline_max THEN "BORDERLINE"
    ELSE "HIGH"

\* line 255: the validation of the submitted value
Invalid(value) == value <= 0

\* lines 262-270: the st.error of an emergency value, none for any other
EmergencyOf(value) ==
    IF value < CRITICAL_LOW_BELOW THEN "Critical Low Blood Sugar"
    ELSE IF value > EXTREMELY_HIGH_ABOVE THEN "Extremely High Blood Sugar"
    ELSE NoAlert

\* the status chain of the submit handler
StatusOf(value, threshold) ==
    IF value < CRITICAL_LOW_BELOW THEN "CRITICAL LOW"
    ELSE IF value < threshold.low THEN "LOW"
    ELSE IF value <= threshold.normal_max THEN "NORMAL"
    ELSE IF value <= threshold.borderline_max THEN "BORDERLINE"
    ELSE "HIGH"

\* the colour the status chain binds with each status
ColorOf(st) ==
    CASE st = "NORMAL"     -> "green"
      [] st = "BORDERLINE" -> "yellow"
      [] OTHER             -> "red"

\* the dictionary stored in st.session_state.last_result
ResultOf(value, st, display, key) ==
    [sugar |-> value, status |-> st, color |-> ColorOf(st),
     reading_type |-> display, reading_type_key |-> key]

----------------------------------------------------------------------------
(* Files found at start-up and the inputs drawn *)

SeedSugar == <<100, 90, 69, 70, 101, 125, 126, 39, 401, 130>>
SeedTypes == <<"fasting", "random", "post_lunch", "random", "fasting">>

\* the i-th reading of a log written by earlier sessions
SeedRow(i) ==
    [datetime     |-> i,
     reading_type |-> SeedTypes[((i - 1) % Len(SeedTypes)) + 1],
     sugar        |-> SeedSugar[((i - 1) % Len(SeedSugar)) + 1]]

\* a log in the current layout: what n saves leave behind
ModernFile(n) ==
    to_csv([columns |-> <<"datetime", "reading_type", "sugar">>,
            rows    |-> [i \in 1..n |-> SeedRow(i)]])

\* a log of the layout that had no reading_type column
LegacyFile(n) ==
    to_csv([columns |-> <<"datetime", "sugar">>,
            rows    |-> [i \in 1..n |->
                           [datetime |-> SeedRow(i).datetime, sugar |-> SeedRow(i).sugar]]])

FilesUpTo(n) ==
    {NoFile} \cup {ModernFile(k) : k \in 1..n} \cup {LegacyFile(k) : k \in 1..n}

\* the values and types the runs of Spec enter
EntrySugar == {0, 39, 130, 401}
EntryTypes == {"Fasting (Empty Stomach)", "After Lunch", "Random"}

----------------------------------------------------------------------------
(* Initial states *)

InitFrom(files) ==
    /\ csv \in files
    /\ clock = Len(csv.lines) + 1
    /\ show_results = FALSE
    /\ last_result = NoResult
    /\ pc = "ready"
    /\ submit = FALSE
    /\ reading_type_display = "Fasting (Empty Stomach)"
    /\ sugar = MIN_VALUE
    /\ reading_type_key = Unbound
    /\ status = Unbound
    /\ alert = NoAlert
    /\ shown = NoResult
    /\ call = NoCall
    /\ before = csv
    /\ batch = <<>>

Init == InitFrom(FilesUpTo(MainSeed))

----------------------------------------------------------------------------
(* One run of the script *)

\* lines 215-246: a rerun starts; the widgets return their values
Entry(types, values) ==
    /\ pc \in {"ready", "stopped", "done"}
    /\ \E d \in types, s \in values, b \in BOOLEAN :
          /\ (b /\ s > 0) => Len(batch) < MaxAppend
          /\ reading_type_display' = d
          /\ sugar' = s
          /\ submit' = b
    /\ reading_type_key' = Unbound
    /\ status' = Unbound
    /\ alert' = NoAlert
    /\ shown' = NoResult
    /\ call' = NoCall
    /\ before' = csv
    /\ pc' = "submit"
    /\ UNCHANGED <<csv, clock, show_results, last_result, batch>>

\* lines 252-257: `if submit:` and the validation
SubmitCheck ==
    /\ pc = "submit"
    /\ IF ~submit
       THEN /\ pc' = "results"
            /\ UNCHANGED <<reading_type_key, alert>>
       ELSE /\ reading_type_key' = READING_TYPES[reading_type_display]
            /\ IF Invalid(sugar)
               THEN /\ alert' = "Invalid input: Blood sugar must be a positive value."
                    /\ pc' = "stopped"
               ELSE /\ pc' = "save"
                    /\ UNCHANGED alert
    /\ UNCHANGED <<csv, clock, show_results, last_result, submit, reading_type_display,
                   sugar, status, shown, call, before, batch>>

\* a faulty variant of Save: the run goes on without writing its row
Save_Skipped ==
    /\ pc = "save"
    /\ pc' = "emergency"
    /\ UNCHANGED <<csv, clock, show_results, last_result, submit, reading_type_display,
                   sugar, reading_type_key, status, alert, shown, call, before, batch>>

\* line 259; the clock is read once by the call, and the next call reads a
\* later second
Save ==
    /\ pc = "save"
    /\ csv' = save_sugar_history(csv, clock, sugar, reading_type_key)
    /\ clock' = clock + 1
    /\ batch' = Append(batch, [sugar |-> sugar, reading_type |-> reading_type_key])
    /\ call' = [fn |-> "save_sugar_history", arg |-> <<sugar, reading_type_key>>,
                ret |-> <<>>]
    /\ pc' = "emergency"
    /\ UNCHANGED <<show_results, last_result, submit, reading_type_display, sugar,
                   reading_type_key, status, alert, shown, before>>

\* lines 262-270
Emergency ==
    /\ pc = "emergency"
    /\ IF EmergencyOf(sugar) # NoAlert
       THEN /\ alert' = EmergencyOf(sugar)
            /\ pc' = "stopped"
       ELSE /\ pc' = "classify"
            /\ UNCHANGED alert
    /\ UNCHANGED <<csv, clock, show_results, last_result, submit, reading_type_display,
                   sugar, reading_type_key, status, shown, call, before, batch>>

\* lines 273-319
Classify ==
    /\ pc = "classify"
    /\ status' = StatusOf(sugar, THRESHOLDS[reading_type_key])
    /\ pc' = "store"
    /\ UNCHANGED <<csv, clock, show_results, last_result, submit, reading_type_display,
                   sugar, reading_type_key, alert, shown, call, before, batch>>

\* lines 322-334
Store ==
    /\ pc = "store"
    /\ show_results' = TRUE
    /\ last_result' = ResultOf(sugar, status, reading_type_display, reading_type_key)
    /\ pc' = "results"
    /\ UNCHANGED <<csv, clock, submit, reading_type_display, sugar, reading_type_key,
                   status, alert, shown, call, before, batch>>

\* lines 340-405
Results ==
    /\ pc = "results"
    /\ IF show_results
       THEN /\ shown' = last_result
            /\ call' = [fn  |-> "get_smart_insight",
                        arg |-> last_result.reading_type_key,
                        ret |-> get_smart_insight(csv, last_result.reading_type_key)]
       ELSE UNCHANGED <<shown, call>>
    /\ pc' = "trend"
    /\ UNCHANGED <<csv, clock, show_results, last_result, submit, reading_type_display,
                   sugar, reading_type_key, status, alert, before, batch>>

\* lines 415-433
Trend ==
    /\ pc = "trend"
    /\ \E show_trend \in BOOLEAN, filter_by_type \in {"All"} \cup EntryTypes :
          IF show_trend
          THEN LET filter_value == IF filter_by_type # "All"
                                   THEN READING_TYPES[filter_by_type] ELSE NoFilter
               IN  call' = [fn  |-> "show_sugar_trend",
                            arg |-> filter_value,
                            ret |-> show_sugar_trend(csv, filter_value)]
          ELSE UNCHANGED call
    /\ pc' = "history"
    /\ UNCHANGED <<csv, clock, show_results, last_result, submit, reading_type_display,
                   sugar, reading_type_key, status, alert, shown, before, batch>>

\* lines 443-482
History ==
    /\ pc = "history"
    /\ call' = [fn  |-> "get_history_data",
                arg |-> HISTORY_LIMIT,
                ret |-> get_history_data(csv, HISTORY_LIMIT)]
    /\ pc' = "done"
    /\ UNCHANGED <<csv, clock, show_results, last_result, submit, reading_type_display,
                   sugar, reading_type_key, status, alert, shown, before, batch>>

Next ==
    \/ Entry(EntryTypes, EntrySugar)
    \/ SubmitCheck
    \/ Save
    \/ Emergency
    \/ Classify
    \/ Store
    \/ Results
    \/ Trend
    \/ History

Spec == Init /\ [][Next]_vars

----------------------------------------------------------------------------
(* The submit handler on any value the number input can return *)

\* a session an earlier submission has written
PriorSession == ResultOf(130, "BORDERLINE", "Random", "random")

InitClassify ==
    /\ csv \in FilesUpTo(MainSeed)
    /\ clock = Len(csv.lines) + 1
    /\ \/ show_results = FALSE /\ last_result = NoResult
       \/ show_results = TRUE /\ last_result = PriorSession
    /\ pc = "submit"
    /\ submit = TRUE
    /\ reading_type_display \in DOMAIN READING_TYPES
    /\ sugar \in MIN_VALUE..MAX_VALUE
    /\ reading_type_key = Unbound
    /\ status = Unbound
    /\ alert = NoAlert
    /\ shown = NoResult
    /\ call = NoCall
    /\ before = csv
    /\ batch = <<>>

NextClassify ==
    \/ SubmitCheck
    \/ Save
    \/ Emergency
    \/ Classify
    \/ Store

SpecClassify == InitClassify /\ [][NextClassify]_vars

----------------------------------------------------------------------------
(* The engine functions called one at a time on longer logs *)

\* the readings the direct calls append
StoreSugar == {90, 100}
StoreTypes == {"fasting", "random"}

StoreAppend ==
    /\ pc = "ready"
    /\ Len(batch) < MaxAppend
    /\ \E s \in StoreSugar, t \in StoreTypes :
          /\ csv' = save_sugar_history(csv, clock, s, t)
          /\ batch' = Append(batch, [sugar |-> s, reading_type |-> t])
          /\ call' = [fn |-> "save_sugar_history", arg |-> <<s, t>>, ret |-> <<>>]
    /\ clock' = clock + 1
    /\ UNCHANGED <<show_results, last_result, pc, submit, reading_type_display, sugar,
                   reading_type_key, status, alert, shown, before>>

StoreTail ==
    /\ pc = "ready"
    /\ \E n \in 0..MaxLimit :
          call' = [fn |-> "get_history_data", arg |-> n, ret |-> get_history_data(csv, n)]
    /\ UNCHANGED <<csv, clock, show_results, last_result, pc, submit,
                   reading_type_display, sugar, reading_type_key, status, alert, shown,
                   before, batch>>

StoreInsight ==
    /\ pc = "ready"
    /\ \E t \in StoreTypes :
          call' = [fn |-> "get_smart_insight", arg |-> t, ret |-> get_smart_insight(csv, t)]
    /\ UNCHANGED <<csv, clock, show_results, last_result, pc, submit,
                   reading_type_display, sugar, reading_type_key, status, alert, shown,
                   before, batch>>

StoreTrend ==
    /\ pc = "ready"
    /\ \E f \in {NoFilter} \cup {READING_TYPES[d] : d \in DOMAIN READING_TYPES} :
          call' = [fn |-> "show_sugar_trend", arg |-> f, ret |-> show_sugar_trend(csv, f)]
    /\ UNCHANGED <<csv, clock, show_results, last_result, pc, submit,
                   reading_type_display, sugar, reading_type_key, status, alert, shown,
                   before, batch>>

InitStore == InitFrom(FilesUpTo(MaxSeed))

NextStore ==
    \/ StoreAppend
    \/ StoreTail
    \/ StoreInsight
    \/ StoreTrend

SpecStore == InitStore /\ [][NextStore]_vars

----------------------------------------------------------------------------
(* Properties *)

HasColumn(file, c) == c \in Range(file.header)

Cell(file, i, c) == file.lines[i][ColumnIndex(file.header, c)]

NumRows(file) == Len(file.lines)

\* the readings a file holds, a row without a reading_type taken as random
Stored(file) ==
    [i \in 1..NumRows(file) |->
        [datetime     |-> Cell(file, i, "datetime"),
         sugar        |-> ParseInt(Cell(file, i, "sugar")),
         reading_type |-> IF HasColumn(file, "reading_type")
                          THEN Cell(file, i, "reading_type") ELSE "random"]]

\* the readings of a returned frame
FrameReadings(df) ==
    [i \in 1..Len(df.rows) |->
        [datetime     |-> df.rows[i]["datetime"],
         sugar        |-> df.rows[i]["sugar"],
         reading_type |-> df.rows[i]["reading_type"]]]

ValueAndType(readings) ==
    [i \in 1..Len(readings) |->
        [sugar |-> readings[i].sugar, reading_type |-> readings[i].reading_type]]

LastN(s, k) == SubSeq(s, Len(s) - k + 1, Len(s))

SameFile(a, b) == a.exists = b.exists /\ a.header = b.header /\ a.lines = b.lines

\* the running script has written its row
Persisted == ~SameFile(csv, before)

BandStatuses == {"LOW", "NORMAL", "BORDERLINE", "HIGH"}

\* the status the band T gives the value v
BandStatus(v, T) ==
    IF v < T.low THEN "LOW"
    ELSE IF v <= T.normal_max THEN "NORMAL"
    ELSE IF v <= T.borderline_max THEN "BORDERLINE"
    ELSE "HIGH"

InBandRange(v) == 40 <= v /\ v <= 400

\* C1: a submitted value in 40..400 is never stopped, and once the status
\* chain has run its status is the one the context's band gives the value
\* (v < low LOW, low..normal_max NORMAL, up to borderline_max BORDERLINE,
\* above HIGH), whatever the file and the session held; the result stored
\* carries that status; fasting: 69 LOW, 70 and 100 NORMAL, 101 and 125
\* BORDERLINE, 126 HIGH.
C1_StatusByBand ==
    (submit /\ InBandRange(sugar)) =>
        /\ pc # "stopped"
        /\ pc \in {"store", "results"} =>
              /\ status \in BandStatuses
              /\ status = BandStatus(sugar, THRESHOLDS[READING_TYPES[reading_type_display]])
              /\ reading_type_display = "Fasting (Empty Stomach)" =>
                    /\ sugar = 69 => status = "LOW"
                    /\ sugar \in {70, 100} => status = "NORMAL"
                    /\ sugar \in {101, 125} => status = "BORDERLINE"
                    /\ sugar = 126 => status = "HIGH"
        /\ pc = "results" =>
              /\ show_results
              /\ last_result.sugar = sugar
              /\ last_result.status = status
              /\ last_result.reading_type_key = READING_TYPES[reading_type_display]

C1_Witness ==
    /\ pc = "results"
    /\ reading_type_display = "Fasting (Empty Stomach)"
    /\ sugar = 101
    /\ last_result.status = "BORDERLINE"
    /\ before.exists

\* C2: a submitted value in 1..39 ends the run with the critical-low alert
\* and a value above 400 with the extremely-high alert; the run is stopped
\* there: the status chain never runs on such a value, no status is bound,
\* no result card is rendered and the session is not written by it.
C2_EmergencyTerminal ==
    /\ (submit /\ 0 < sugar /\ sugar < 40 /\ pc \notin {"submit", "save", "emergency"}) =>
          /\ pc = "stopped"
          /\ alert = "Critical Low Blood Sugar"
    /\ (submit /\ sugar > 400 /\ pc \notin {"submit", "save", "emergency"}) =>
          /\ pc = "stopped"
          /\ alert = "Extremely High Blood Sugar"
    /\ (submit /\ sugar > 0 /\ ~InBandRange(sugar)) =>
          /\ pc \notin {"classify", "store", "results"}
          /\ status = Unbound
          /\ shown = NoResult
          /\ last_result.sugar # sugar

C2_Witness ==
    /\ pc = "stopped"
    /\ sugar = 401
    /\ reading_type_display = "After Dinner"
    /\ alert = "Extremely High Blood Sugar"
    /\ show_results

\* C3: once a run is past its save point (or has stopped, or was no
\* submission), the file has one row more than the run found if the run
\* submitted a positive value, that row carrying the value and the context
\* submitted, and is the file the run found otherwise.
C3_AppendIffPositive ==
    /\ pc \in {"ready", "submit", "save"} => SameFile(csv, before)
    /\ pc \notin {"ready", "submit", "save"} =>
          IF submit /\ sugar > 0
          THEN /\ NumRows(csv) = NumRows(before) + 1
               /\ ValueAndType(LastN(Stored(csv), 1)) =
                     <<[sugar |-> sugar,
                        reading_type |-> READING_TYPES[reading_type_display]]>>
          ELSE SameFile(csv, before)

C3_Witness ==
    /\ pc = "stopped"
    /\ sugar = 39
    /\ NumRows(csv) = NumRows(before) + 1
    /\ Stored(csv)[NumRows(csv)].sugar = 39

C3_WitnessRejected ==
    /\ pc = "stopped"
    /\ submit
    /\ sugar = 0
    /\ NumRows(csv) > 0

\* the datetime and sugar cells of the rows of a file
DatesAndValues(file) ==
    [i \in 1..NumRows(file) |->
        <<Cell(file, i, "datetime"), Cell(file, i, "sugar")>>]

\* C4: every step leaves the file with the rows it had, in their order and
\* with their datetime and sugar cells as they were, and adds at most one
\* row, after them; a file that exists keeps existing.
C4_AppendOnly ==
    [][/\ csv.exists => csv'.exists
       /\ NumRows(csv') \in {NumRows(csv), NumRows(csv) + 1}
       /\ SubSeq(DatesAndValues(csv'), 1, NumRows(csv)) = DatesAndValues(csv)
       /\ NumRows(csv') = NumRows(csv) + 1 =>
             /\ pc = "save"
             /\ Stored(csv')[NumRows(csv')].sugar = sugar]_vars

C4_Witness ==
    /\ pc = "done"
    /\ Len(batch) = 2
    /\ NumRows(csv) = 4
    /\ csv.header = <<"datetime", "sugar", "reading_type">>
    /\ call.fn = "get_history_data"

\* C5: get_history_data(n) returns the last min(n, rows) readings of the
\* file in stored order, and no rows when there is no file; called with the
\* number of readings appended since the start it returns those readings,
\* value and context, in the order they were appended.
C5_TailRoundTrip ==
    call.fn = "get_history_data" =>
        LET n   == call.arg
            all == Stored(csv)
        IN  /\ FrameReadings(call.ret) = LastN(all, Min(n, Len(all)))
            /\ ~csv.exists => Len(call.ret.rows) = 0
            /\ n = Len(batch) => ValueAndType(FrameReadings(call.ret)) = batch

C5_Witness ==
    /\ call.fn = "get_history_data"
    /\ call.arg = 2
    /\ Len(batch) = 2
    /\ batch[1] # batch[2]
    /\ NumRows(csv) > 2
    /\ Len(call.ret.rows) = 2

\* C6: get_smart_insight returns the no-history text when nothing is stored,
\* the first-entry text when one row is, and otherwise compares the last two
\* rows of the whole file whatever their contexts and its argument: lower by
\* previous - last, higher by last - previous, or the same; [100, 90] gives
\* lower by 10.
C6_Insight ==
    call.fn = "get_smart_insight" =>
        LET all  == Stored(csv)
            n    == Len(all)
            last == all[n].sugar
            prev == all[n - 1].sugar
        IN  /\ n = 0 => call.ret = [text |-> "No history available yet.", by |-> 0]
            /\ n = 1 => call.ret =
                  [text |-> "This is your first entry. Add more daily values to see comparisons.",
                   by |-> 0]
            /\ (n >= 2 /\ last < prev) => call.ret =
                  [text |-> "Good progress. Today's sugar is lower than yesterday by",
                   by |-> prev - last]
            /\ (n >= 2 /\ last > prev) => call.ret =
                  [text |-> "Attention needed. Today's sugar is higher than yesterday by",
                   by |-> last - prev]
            /\ (n >= 2 /\ last = prev) => call.ret =
                  [text |-> "Your sugar level is the same as yesterday. Maintain your routine.",
                   by |-> 0]
            /\ (n >= 2 /\ prev = 100 /\ last = 90) => call.ret.by = 10

C6_Witness ==
    /\ call.fn = "get_smart_insight"
    /\ call.arg = "fasting"
    /\ NumRows(csv) >= 3
    /\ Stored(csv)[NumRows(csv)].sugar = 90
    /\ Stored(csv)[NumRows(csv)].reading_type = "random"
    /\ Stored(csv)[NumRows(csv) - 1].sugar = 100
    /\ Stored(csv)[NumRows(csv) - 2].reading_type = "fasting"
    /\ call.ret.by = 10

\* the colour of the fixed band
BandColor(v) ==
    IF v < 70 THEN "red"
    ELSE IF v <= 100 THEN "green"
    ELSE IF v <= 125 THEN "orange"
    ELSE "red"

\* C7: show_sugar_trend returns no figure when fewer than 2 rows match the
\* filter, and otherwise the last min(7, matching) matching rows in stored
\* order, each with the colour of the fixed band (< 70 red, 70..100 green,
\* 101..125 orange, > 125 red).
C7_Trend ==
    call.fn = "show_sugar_trend" =>
        LET all   == Stored(csv)
            match == IF call.arg = NoFilter THEN all
                     ELSE SelectSeq(all, LAMBDA r : r.reading_type = call.arg)
            k     == Min(7, Len(match))
            want  == LastN(match, k)
        IN  /\ Len(match) < 2 => ~call.ret.fig /\ Len(call.ret.bars) = 0
            /\ Len(match) >= 2 =>
                  /\ call.ret.fig
                  /\ Len(call.ret.bars) = k
                  /\ \A i \in 1..k :
                        /\ call.ret.bars[i].datetime = want[i].datetime
                        /\ call.ret.bars[i].sugar = want[i].sugar
                        /\ call.ret.bars[i].color = BandColor(want[i].sugar)

C7_Witness ==
    /\ call.fn = "show_sugar_trend"
    /\ call.arg = "random"
    /\ call.ret.fig
    /\ Len(call.ret.bars) = 7
    /\ Len(SelectSeq(Stored(csv), LAMBDA r : r.reading_type = "random")) > 7
    /\ NumRows(csv) > Len(SelectSeq(Stored(csv), LAMBDA r : r.reading_type = "random"))
    /\ {call.ret.bars[i].color : i \in 1..7} = {"red", "green", "orange"}

C7_WitnessInsufficient ==
    /\ call.fn = "show_sugar_trend"
    /\ call.arg = "fasting"
    /\ NumRows(csv) >= 3
    /\ ~call.ret.fig

\* the file the behaviour started from has no reading_type column
LegacyStart == before.exists /\ ~HasColumn(before, "reading_type")

\* C8: on a file without the reading_type column, get_history_data returns
\* every row with reading_type random, and show_sugar_trend matches every
\* row under the filter random and none under any other filter; once a
\* reading has been appended to such a file, its old rows are stored with
\* reading_type random and their datetime and sugar as they were, and the
\* appended rows with the reading_type submitted.
C8_LegacyRandom ==
    LegacyStart =>
        /\ (~HasColumn(csv, "reading_type") /\ call.fn = "get_history_data") =>
              /\ Len(call.ret.rows) = Min(call.arg, NumRows(csv))
              /\ \A i \in 1..Len(call.ret.rows) :
                    call.ret.rows[i]["reading_type"] = "random"
        /\ (~HasColumn(csv, "reading_type") /\ call.fn = "show_sugar_trend") =>
              IF call.arg \in {NoFilter, "random"}
              THEN Len(call.ret.bars) =
                      IF NumRows(csv) < 2 THEN 0 ELSE Min(7, NumRows(csv))
              ELSE ~call.ret.fig
        /\ (~HasColumn(csv, "reading_type") /\ call.fn = "get_smart_insight") =>
              (NumRows(csv) >= 2 <=>
                  call.ret.text \notin
                      {"No history available yet.",
                       "This is your first entry. Add more daily values to see comparisons."})
        /\ Len(batch) = 0 => ~HasColumn(csv, "reading_type")
        /\ Len(batch) > 0 =>
              /\ HasColumn(csv, "reading_type")
              /\ NumRows(csv) = NumRows(before) + Len(batch)
              /\ \A i \in 1..NumRows(before) :
                    /\ Cell(csv, i, "reading_type") = "random"
                    /\ Cell(csv, i, "datetime") = Cell(before, i, "datetime")
                    /\ Cell(csv, i, "sugar") = Cell(before, i, "sugar")
              /\ \A j \in 1..Len(batch) :
                    /\ Cell(csv, NumRows(before) + j, "reading_type") = batch[j].reading_type
                    /\ ParseInt(Cell(csv, NumRows(before) + j, "sugar")) = batch[j].sugar

C8_Witness ==
    /\ LegacyStart
    /\ NumRows(before) >= 2
    /\ Len(batch) = 1
    /\ batch[1].reading_type = "fasting"
    /\ call.fn = "show_sugar_trend"
    /\ call.arg = "random"
    /\ Len(call.ret.bars) = NumRows(before)

C8_WitnessLoad ==
    /\ LegacyStart
    /\ ~HasColumn(csv, "reading_type")
    /\ call.fn = "get_history_data"
    /\ Len(call.ret.rows) = 3

\* C9 as stated: within a submission the reading is classified before it is
\* persisted, so whenever the run of a value in 40..400 has written its row
\* the status is bound.
C9_ClassifiedBeforePersisted ==
    (Persisted /\ InBandRange(sugar)) => status # Unbound

\* C9 as amended: a run validates, then persists, then classifies, then
\* renders: a row is written only by a submission whose value passed the
\* validation, the status is bound only once the row is written, and the
\* result of a submission is rendered only once its status is bound.
C9_PersistedBeforeClassified ==
    /\ Persisted => (submit /\ sugar > 0 /\ alert # "Invalid input: Blood sugar must be a positive value.")
    /\ status # Unbound => Persisted
    /\ (submit /\ shown # NoResult) => (status # Unbound /\ shown.status = status)
    /\ (submit /\ pc \in {"trend", "history", "done"}) => shown # NoResult

C9_Witness ==
    /\ pc = "done"
    /\ submit
    /\ Persisted
    /\ status = "HIGH"
    /\ shown.sugar = sugar

C9_WitnessUnclassified ==
    /\ pc = "emergency"
    /\ Persisted
    /\ status = Unbound
    /\ InBandRange(sugar)

\* the session holds the result of a submission in 40..400
GoodResult(r) ==
    /\ InBandRange(r.sugar)
    /\ r.status \in BandStatuses
    /\ r.reading_type_key = READING_TYPES[r.reading_type]
    /\ r.status = BandStatus(r.sugar, THRESHOLDS[r.reading_type_key])

\* C10: show_results and last_result are written only by the run of a
\* submission whose value is in 40..400, so a rejected or an emergency
\* submission leaves them as they were, and whenever show_results is true
\* last_result holds a value in 40..400 with the status its band gives it
\* under the context stored with it.
C10_SessionFrame ==
    [][/\ (show_results' # show_results \/ last_result' # last_result) =>
             (submit /\ InBandRange(sugar) /\ pc = "store" /\ last_result'.sugar = sugar)
       /\ show_results => show_results'
       /\ show_results' => GoodResult(last_result')]_vars

C10_Witness ==
    /\ show_results
    /\ pc = "stopped"
    /\ alert = "Critical Low Blood Sugar"
    /\ Stored(csv)[NumRows(csv)].sugar = 39
    /\ last_result.sugar = 130
    /\ last_result.status = "HIGH"

====
